---- MODULE Spec2Model ----
(***************************************************************************)
(* A model of app.py, the Flask application that serves the radical /     *)
(* kanji / vocabulary browser and its quiz API.                            *)
(*                                                                         *)
(* Text values are sequences of one-character strings, so that Python's    *)
(* str.split and str.strip and SQL's STRING_AGG / ORDER BY are computed    *)
(* character by character.  SQL NULL / Python None is the value None.      *)
(***************************************************************************)
EXTENDS Integers, Sequences, FiniteSets, TLC

VARIABLES
    db,        \* the content store and the users table
    session,   \* the user id kept in the session cookie, or NoUser
    open,      \* database connections opened and not yet closed
    req,       \* the last request
    fetched,   \* the rows the three sampling queries of the last request returned
    resp       \* the response to the last request

vars == <<db, session, open, req, fetched, resp>>

----------------------------------------------------------------------------
(* Bounds of the exploration                                               *)

\* connections the database server accepts before psycopg2.connect raises
MaxOpen == 2
\* reading rows of the kanji whose readings vary
MaxReadings == 2
\* alternative-meaning rows of the vocabulary whose alternatives vary
MaxAlts == 2
\* the orders ORDER BY RANDOM() is explored in: the rows rotated by 0..MaxShift
MaxShift == 1

(* Constants of the program                                                *)

\* LIMIT 5 of the three sampling queries
SampleLimit == 5
\* range(2) of the three learn loops
LearnCount == 2
\* WHERE level = 1 of the three sampling queries
QuizLevel == 1

----------------------------------------------------------------------------
(* Values                                                                  *)

None == <<"None">>

\* Python truthiness of a value that is None or a str
Truthy(v) == v # None /\ v # <<>>

Whitespace == {" "}

\* the characters of the model in collation (byte) order
CharOrder == <<" ", ",", "1", "2", "3", "4", "5", "6", "7",
               "a", "b", "c", "g", "i", "k", "m", "r", "v">>

Rank(ch) == CHOOSE i \in 1..Len(CharOrder) : CharOrder[i] = ch

RECURSIVE TextLess(_, _)
\* s < t for two non-NULL texts, as ORDER BY compares them
TextLess(s, t) ==
    IF t = <<>> THEN FALSE
    ELSE IF s = <<>> THEN TRUE
    ELSE IF Head(s) # Head(t) THEN Rank(Head(s)) < Rank(Head(t))
    ELSE TextLess(Tail(s), Tail(t))

\* ascending ORDER BY on a nullable text: NULLs sort last
NullsLastLess(s, t) ==
    IF s = None THEN FALSE
    ELSE IF t = None THEN TRUE
    ELSE TextLess(s, t)

Digit(i) == <<"1", "2", "3", "4", "5", "6", "7">>[i]

\* str(n) of a non-negative integer
RECURSIVE Decimal(_)
Decimal(n) ==
    IF n < 10 THEN <<(<<"0", "1", "2", "3", "4", "5", "6", "7", "8", "9">>)[n + 1]>>
    ELSE Decimal(n \div 10) \o Decimal(n % 10)

RECURSIVE Ascending(_)
\* the members of a finite set of integers, smallest first
Ascending(S) ==
    IF S = {} THEN <<>>
    ELSE LET m == CHOOSE x \in S : \A y \in S : x <= y
         IN <<m>> \o Ascending(S \ {m})

\* the sequence in ascending order, equal keys kept in their order (a stable
\* sort); less[i][j] tells whether seq[i] sorts before seq[j]
SortBy(seq, less) ==
    LET Before(j, i) == less[j][i] \/ (~less[i][j] /\ j < i)
        Place(i)     == 1 + Cardinality({j \in 1..Len(seq) : Before(j, i)})
    IN [p \in 1..Len(seq) |-> seq[CHOOSE i \in 1..Len(seq) : Place(i) = p]]

----------------------------------------------------------------------------
(* The content store.  Ids 1..6 exist in every table, id 7 in none.        *)

ItemIds == 1..6
MissingId == Cardinality(ItemIds) + 1

LevelOf(i, level1) == IF i <= level1 THEN QuizLevel ELSE QuizLevel + 1

\* bcrypt's salted hash of a password, as check_password_hash sees it
Hash(pw) == <<"bcrypt", pw>>

Users == (1 :> [username |-> "alice", password_hash |-> Hash("pw"), last_login |-> None])

BaseRadicals(level1) ==
    [i \in ItemIds |->
        [character       |-> IF i <= 5 THEN <<"r", Digit(i)>> ELSE None,
         character_image |-> IF i <= 5 THEN None ELSE <<"i", "m", "g", Digit(i)>>,
         meaning         |-> <<"m", Digit(i)>>,
         mnemonic        |-> CASE i = 1 -> <<"a">>
                               [] i = 2 -> None
                               [] i = 3 -> <<>>
                               [] OTHER -> <<"b">>,
         level           |-> LevelOf(i, level1)]]

BaseKanji(level1) ==
    [i \in ItemIds |->
        [character |-> <<"k", Digit(i)>>,
         meaning   |-> <<"m", Digit(i)>>,
         level     |-> LevelOf(i, level1)]]

ReadingRow(i, ty, text) == [kanji_id |-> i, reading_type |-> ty, reading_text |-> text]

\* kanji 1 has the given reading texts; kanji 2 aggregates to "a, b, ,c";
\* kanji 3..5 have one reading each, kanji 6 none
KanjiReadings(texts) ==
    [j \in 1..Len(texts) |->
        ReadingRow(1, IF j % 2 = 1 THEN "on" ELSE "kun", texts[j])]
    \o <<ReadingRow(2, "on", <<"a">>), ReadingRow(2, "kun", <<"b">>),
         ReadingRow(2, "kun", <<",", "c">>),
         ReadingRow(3, "on", <<"c">>), ReadingRow(4, "kun", <<"a", "b">>),
         ReadingRow(5, "on", <<"b">>)>>

KanjiMnemonics ==
    <<[kanji_id |-> 1, mnemonic_type |-> "reading", content |-> <<"b">>],
      [kanji_id |-> 1, mnemonic_type |-> "meaning", content |-> <<"a">>],
      [kanji_id |-> 2, mnemonic_type |-> "meaning", content |-> <<"c">>],
      [kanji_id |-> 3, mnemonic_type |-> "radical", content |-> <<"a">>]>>

BaseVocabulary(level1) ==
    [i \in ItemIds |->
        [character       |-> <<"v", Digit(i)>>,
         primary_meaning |-> <<"m", Digit(i)>>,
         reading         |-> <<"r", Digit(i)>>,
         level           |-> LevelOf(i, level1)]]

AltRow(i, text) == [vocab_id |-> i, meaning_text |-> text]

\* vocabulary 1 has the given alternatives, vocabulary 2 two, the others none
AlternativeMeanings(texts) ==
    [j \in 1..Len(texts) |-> AltRow(1, texts[j])]
    \o <<AltRow(2, <<"b">>), AltRow(2, <<"a">>)>>

VocabExplanations ==
    <<[vocab_id |-> 1, explanation_type |-> "reading", content |-> <<"b">>],
      [vocab_id |-> 1, explanation_type |-> "meaning", content |-> <<"a">>],
      [vocab_id |-> 2, explanation_type |-> "reading", content |-> <<"c">>]>>

\* kanji_radicals and vocab_kanji_composition: <<kanji, radical>>, <<vocabulary, kanji>>
KanjiRadicals == {<<1, 1>>, <<1, 2>>, <<2, 2>>, <<6, 6>>}
VocabKanji == {<<1, 1>>, <<2, 1>>, <<2, 2>>}

Baseline ==
    [radicals                        |-> BaseRadicals(5),
     kanji                           |-> BaseKanji(5),
     kanji_radicals                  |-> KanjiRadicals,
     vocab_kanji_composition         |-> VocabKanji,
     kanji_readings                  |-> KanjiReadings(<<<<"a">>>>),
     kanji_mnemonics                 |-> KanjiMnemonics,
     vocabulary                      |-> BaseVocabulary(5),
     vocabulary_alternative_meanings |-> AlternativeMeanings(<<>>),
     vocab_explanations              |-> VocabExplanations,
     users                           |-> Users]

RECURSIVE SeqsUpTo(_, _)
\* the sequences of at most n members of S
SeqsUpTo(S, n) ==
    IF n = 0 THEN {<<>>}
    ELSE LET shorter == SeqsUpTo(S, n - 1)
         IN shorter \cup {Append(s, x) : s \in shorter, x \in S}

\* texts a reading row may hold: plain, empty, blank, padded
ReadingTexts == {<<"a">>, <<"b">>, <<>>, <<" ">>, <<" ", "c", " ">>}

\* texts an alternative-meaning row may hold
AltTexts == {<<"a">>, <<"b">>, <<>>, None}

\* level-1 row counts a table may have: too few for the learn block, fewer
\* than the limit, more than the limit
Level1Counts == {1, 4, 6}

\* the stores explored: the baseline with one table changed
RadicalStores ==
    {[Baseline EXCEPT !.radicals[1].character = c] : c \in {None, <<>>}}

KanjiStores ==
    {[Baseline EXCEPT !.kanji_readings = KanjiReadings(t)] :
        t \in SeqsUpTo(ReadingTexts, MaxReadings)}

VocabStores ==
    {[Baseline EXCEPT !.vocabulary_alternative_meanings = AlternativeMeanings(t)] :
        t \in SeqsUpTo(AltTexts, MaxAlts)}

SizeStores ==
    {[Baseline EXCEPT !.radicals = BaseRadicals(n)] : n \in Level1Counts}
    \cup {[Baseline EXCEPT !.kanji = BaseKanji(n)] : n \in Level1Counts}
    \cup {[Baseline EXCEPT !.vocabulary = BaseVocabulary(n)] : n \in Level1Counts}

Stores == {Baseline} \cup RadicalStores \cup KanjiStores \cup VocabStores \cup SizeStores

----------------------------------------------------------------------------
(* SQL and Python primitives                                               *)

RECURSIVE Join(_, _)
\* the texts joined by the separator
Join(texts, sep) ==
    IF Len(texts) = 1 THEN texts[1]
    ELSE texts[1] \o sep \o Join(Tail(texts), sep)

NotNull(v) == v # None

\* STRING_AGG(text, sep): the non-NULL texts joined, NULL when there are none
StringAgg(texts, sep) ==
    LET given == SelectSeq(texts, NotNull)
    IN IF given = <<>> THEN None ELSE Join(given, sep)

\* ARRAY_AGG(text ORDER BY text) over a LEFT JOIN: the unmatched left row
\* contributes one NULL
ArrayAgg(texts) ==
    IF texts = <<>> THEN <<None>>
    ELSE SortBy(texts, [i \in DOMAIN texts |->
                          [j \in DOMAIN texts |-> NullsLastLess(texts[i], texts[j])]])

RECURSIVE Split(_, _)
\* str.split(sep) for a one-character separator
Split(s, sep) ==
    IF \A i \in 1..Len(s) : s[i] # sep THEN <<s>>
    ELSE LET i == CHOOSE k \in 1..Len(s) :
                     s[k] = sep /\ \A j \in 1..(k - 1) : s[j] # sep
         IN <<SubSeq(s, 1, i - 1)>> \o Split(SubSeq(s, i + 1, Len(s)), sep)

RECURSIVE LStrip(_)
LStrip(s) == IF s # <<>> /\ Head(s) \in Whitespace THEN LStrip(Tail(s)) ELSE s

RECURSIVE RStrip(_)
RStrip(s) ==
    IF s # <<>> /\ s[Len(s)] \in Whitespace THEN RStrip(SubSeq(s, 1, Len(s) - 1)) ELSE s

\* str.strip()
Strip(s) == LStrip(RStrip(s))

\* the rows in the order ORDER BY RANDOM() returns them, cut at the limit;
\* the orders explored are the rotations of the rows by 0..MaxShift
RandomSamples(rows, limit) ==
    LET n == Len(rows)
        Rotated(k) == [i \in 1..n |-> rows[((i + k - 1) % n) + 1]]
        Limit(seq) == SubSeq(seq, 1, IF n < limit THEN n ELSE limit)
    IN IF n = 0 THEN {<<>>} ELSE {Limit(Rotated(k)) : k \in 0..MaxShift}

\* the result of a Python expression: a value, or the exception it raises
Return(v) == [exc |-> "", val |-> v]
Raise(e) == [exc |-> e, val |-> <<>>]

\* row[key] of a RealDictCursor row
Subscript(row, key) == IF key \in DOMAIN row THEN Return(row[key]) ELSE Raise("KeyError")

\* ListItem counting from 1: the item after the one asked for
ListItemFromOne(seq, i) == IF i + 1 < Len(seq) THEN Return(seq[i + 2]) ELSE Raise("IndexError")

\* seq[i] of a Python list, i counted from 0
ListItem(seq, i) == IF i < Len(seq) THEN Return(seq[i + 1]) ELSE Raise("IndexError")

----------------------------------------------------------------------------
(* get_test_data: the three sampling queries                               *)

Level1Ids(table) == Ascending({i \in DOMAIN table : table[i].level = QuizLevel})

\* SELECT id, character, meaning FROM radicals WHERE level = 1
RadicalRows(store) ==
    LET ids == Level1Ids(store.radicals)
    IN [n \in DOMAIN ids |->
           [id        |-> ids[n],
            character |-> store.radicals[ids[n]].character,
            meaning   |-> store.radicals[ids[n]].meaning]]

ReadingsOf(store, i) ==
    LET Mine(r) == r.kanji_id = i
        mine == SelectSeq(store.kanji_readings, Mine)
    IN [n \in DOMAIN mine |-> mine[n].reading_text]

\* SELECT k.id, k.character, k.meaning, STRING_AGG(kr.reading_text, ', ')
\* FROM kanji k LEFT JOIN kanji_readings kr ... WHERE k.level = 1 GROUP BY ...
KanjiRows(store) ==
    LET ids == Level1Ids(store.kanji)
    IN [n \in DOMAIN ids |->
           [id        |-> ids[n],
            character |-> store.kanji[ids[n]].character,
            meaning   |-> store.kanji[ids[n]].meaning,
            readings  |-> StringAgg(ReadingsOf(store, ids[n]), <<",", " ">>)]]

AlternativesOf(store, i) ==
    LET Mine(r) == r.vocab_id = i
        mine == SelectSeq(store.vocabulary_alternative_meanings, Mine)
    IN [n \in DOMAIN mine |-> mine[n].meaning_text]

\* SELECT v.id, v.character, v.primary_meaning, v.reading,
\* ARRAY_AGG(vam.meaning_text ORDER BY vam.meaning_text) FROM vocabulary v
\* LEFT JOIN vocabulary_alternative_meanings vam ... WHERE v.level = 1 GROUP BY ...
VocabularyRows(store) ==
    LET ids == Level1Ids(store.vocabulary)
    IN [n \in DOMAIN ids |->
           [id                   |-> ids[n],
            character            |-> store.vocabulary[ids[n]].character,
            primary_meaning      |-> store.vocabulary[ids[n]].primary_meaning,
            reading              |-> store.vocabulary[ids[n]].reading,
            alternative_meanings |-> ArrayAgg(AlternativesOf(store, ids[n]))]]

----------------------------------------------------------------------------
(* get_test_data: building the test items                                  *)

\* f"{prefix}{id}"
FormatId(prefix, id) == <<prefix>> \o Decimal(id)

\* radical["character"] or radical["character_image"]
CharacterOf(radical) ==
    IF Truthy(radical.character) THEN Return(radical.character)
    ELSE Subscript(radical, "character_image")

RadicalItem(radical, prefix, mode) ==
    LET c == CharacterOf(radical)
    IN IF c.exc # "" THEN c
       ELSE Return([id        |-> FormatId(prefix, radical.id),
                    type      |-> "radical",
                    character |-> c.val,
                    prompts   |-> <<[type |-> "meaning", answer |-> radical.meaning]>>,
                    mode      |-> mode])

\* ReadingsList keeping the segments as split: [r for r in ... if r.strip()]
ReadingsListUnstripped(readings) ==
    IF readings = None THEN Raise("AttributeError")
    ELSE LET Inked(r) == Truthy(Strip(r))
         IN Return(SelectSeq(Split(readings, ","), Inked))

\* ReadingsList keeping the first occurrence of every reading only
ReadingsListDistinct(readings) ==
    IF readings = None THEN Raise("AttributeError")
    ELSE LET parts == Split(readings, ",")
             all   == SelectSeq([n \in DOMAIN parts |-> Strip(parts[n])], Truthy)
             first == Ascending({i \in 1..Len(all) : \A j \in 1..(i - 1) : all[j] # all[i]})
         IN Return([p \in 1..Len(first) |-> all[first[p]]])

\* [r.strip() for r in k["readings"].split(",") if r.strip()]
ReadingsList(readings) ==
    IF readings = None THEN Raise("AttributeError")
    ELSE LET parts == Split(readings, ",")
         IN Return(SelectSeq([n \in DOMAIN parts |-> Strip(parts[n])], Truthy))

KanjiItem(k, prefix, mode) ==
    LET readings_list == ReadingsList(k.readings)
    IN IF readings_list.exc # "" THEN readings_list
       ELSE Return([id        |-> FormatId(prefix, k.id),
                    type      |-> "kanji",
                    character |-> k.character,
                    prompts   |-> <<[type |-> "meaning", answer |-> k.meaning],
                                    [type |-> "reading", answer |-> readings_list.val]>>,
                    mode      |-> mode])

\* AllMeanings without the filter: [primary] extended by alternative_meanings
AllMeaningsUnfiltered(v) == <<v.primary_meaning>> \o v.alternative_meanings

\* [primary] extended by [alt for alt in alternative_meanings if alt]
AllMeanings(v) ==
    <<v.primary_meaning>> \o
        (IF v.alternative_meanings # <<>>
         THEN SelectSeq(v.alternative_meanings, Truthy)
         ELSE <<>>)

VocabItem(v, prefix, mode) ==
    Return([id        |-> FormatId(prefix, v.id),
            type      |-> "vocabulary",
            character |-> v.character,
            prompts   |-> <<[type |-> "meaning", answer |-> AllMeanings(v)],
                            [type |-> "reading", answer |-> v.reading]>>,
            mode      |-> mode])

\* the dict literal one loop body appends for a row of the given type
TestItem(type, row, prefix, mode) ==
    CASE type = "radical"    -> RadicalItem(row, prefix, mode)
      [] type = "kanji"      -> KanjiItem(row, prefix, mode)
      [] type = "vocabulary" -> VocabItem(row, prefix, mode)

\* for x in sample: test_items.append(...)
ReviewBlock(sample, type, prefix) ==
    [i \in 1..Len(sample) |-> TestItem(type, sample[i], prefix, "review")]

\* for i in range(2): x = sample[i]; test_items.append(...)
LearnBlock(sample, type, prefix) ==
    [i \in 1..LearnCount |->
        LET x == ListItem(sample, i - 1)
        IN IF x.exc # "" THEN x ELSE TestItem(type, x.val, prefix, "learn")]

\* the statements of a block run in order: the first exception ends the run
Run(outcomes) ==
    LET failed == {i \in 1..Len(outcomes) : outcomes[i].exc # ""}
    IN IF failed = {}
       THEN Return([i \in 1..Len(outcomes) |-> outcomes[i].val])
       ELSE Raise(outcomes[CHOOSE i \in failed : \A j \in failed : i <= j].exc)

\* lines 429-533: the test items of the three samples
TestItems(radicals, kanji, vocabulary) ==
    Run(ReviewBlock(radicals, "radical", "radical_")
        \o ReviewBlock(kanji, "kanji", "kanji_")
        \o ReviewBlock(vocabulary, "vocabulary", "vocab_")
        \o LearnBlock(radicals, "radical", "learn_radical_")
        \o LearnBlock(kanji, "kanji", "learn_kanji_")
        \o LearnBlock(vocabulary, "vocabulary", "learn_vocab_"))

----------------------------------------------------------------------------
(* Requests, responses, the session                                        *)

NoUser == 0
NoRows == [radicals |-> <<>>, kanji |-> <<>>, vocabulary |-> <<>>]

Request(route, method, args) == [route |-> route, method |-> method, args |-> args]

Json(value) == [status |-> 200, body |-> value]
Render(template, context) ==
    [status |-> 200, body |-> [template |-> template, context |-> context]]
Redirect(endpoint) == [status |-> 302, body |-> endpoint]
NotFound(text) == [status |-> 404, body |-> text]
\* an exception no handler catches: Flask answers 500
ServerError(exc) == [status |-> 500, body |-> exc]

\* psycopg2.connect raises when the server accepts no more connections
CanConnect == open < MaxOpen

\* User.get: the user of a session id, None when the id is unknown
UserGet(store, user_id) ==
    IF user_id \in DOMAIN store.users THEN user_id ELSE NoUser

\* bcrypt.check_password_hash
CheckPasswordHash(password_hash, password) == password_hash = Hash(password)

\* UPDATE users SET last_login = CURRENT_TIMESTAMP WHERE id = %s
StampLogin(store, user) ==
    [store EXCEPT !.users[user].last_login = <<"CURRENT_TIMESTAMP">>]

\* User.authenticate without the password check
AuthenticateByName(store, username, password) ==
    LET found == {u \in DOMAIN store.users : store.users[u].username = username}
    IN IF found # {} THEN CHOOSE u \in found : TRUE ELSE NoUser

\* User.authenticate: the id of the user the credentials verify, else NoUser
Authenticate(store, username, password) ==
    LET found == {u \in DOMAIN store.users : store.users[u].username = username}
    IN IF found # {} /\ CheckPasswordHash(store.users[CHOOSE u \in found : TRUE].password_hash,
                                          password)
       THEN CHOOSE u \in found : TRUE
       ELSE NoUser

\* the request ends: what it answers and how many connections it left open
Finish(request, response, leaked) ==
    /\ req' = request
    /\ resp' = response
    /\ open' = open + leaked

\* @login_required: current_user is loaded through User.get, which opens and
\* closes a connection of its own; the view runs when Unauthorized is "".
\* Otherwise the request is answered by the login manager (a redirect to
\* login_view) or by the exception User.get raised.
Unauthorized ==
    IF session = NoUser THEN "redirect"
    ELSE IF ~CanConnect THEN "error"
    ELSE IF UserGet(db, session) = NoUser THEN "redirect"
    ELSE ""

\* a view whose query raises: the exception leaves the view before conn.close()
QueryFails(request) ==
    /\ Finish(request, ServerError("OperationalError"), 1)
    /\ UNCHANGED <<db, session>>
    /\ fetched' = NoRows

\* a view that reads the store and answers
Answers(request, response, leaked) ==
    /\ Finish(request, response, leaked)
    /\ UNCHANGED <<db, session>>
    /\ fetched' = NoRows

\* the answer to a request @login_required keeps from its view
Refuse(request) ==
    Answers(request,
            IF Unauthorized = "error" THEN ServerError("OperationalError")
            ELSE Redirect("login"),
            0)

----------------------------------------------------------------------------
(* The quiz API                                                            *)

\* get_test_data, lines 385-533
GetTestData(fault) ==
    LET request == Request("get_test_data", "GET", <<>>)
    IN IF Unauthorized # "" THEN Refuse(request)
       ELSE IF fault THEN QueryFails(request)
       ELSE \E radicals   \in RandomSamples(RadicalRows(db), SampleLimit),
               kanji      \in RandomSamples(KanjiRows(db), SampleLimit),
               vocabulary \in RandomSamples(VocabularyRows(db), SampleLimit) :
               LET test_items == TestItems(radicals, kanji, vocabulary)
               IN /\ Finish(request,
                            IF test_items.exc # "" THEN ServerError(test_items.exc)
                            ELSE Json([items |-> test_items.val]),
                            0)
                  /\ fetched' = [radicals |-> radicals, kanji |-> kanji,
                                 vocabulary |-> vocabulary]
                  /\ UNCHANGED <<db, session>>

NoRequest == Request("", "", <<>>)
NoResponse == [status |-> 0, body |-> <<>>]

\* the quiz API alone, for a user who has logged in, over every store explored
InitQuiz ==
    /\ db \in {StampLogin(store, 1) : store \in Stores}
    /\ session = 1
    /\ open = 0
    /\ req = NoRequest
    /\ fetched = NoRows
    /\ resp = NoResponse

NextQuiz == GetTestData(FALSE)

SpecQuiz == InitQuiz /\ [][NextQuiz]_vars


----------------------------------------------------------------------------
(* Properties of the quiz API                                              *)

\* the last request ran the body of get_test_data to its end or to an
\* exception of its own (it was neither refused nor failed by the database)
QuizRan ==
    /\ req.route = "get_test_data"
    /\ \/ resp.status = 200
       \/ resp.status = 500 /\ resp.body # "OperationalError"

QuizAnswered == req.route = "get_test_data" /\ resp.status = 200

Items == resp.body.items
Answer(item, n) == item.prompts[n].answer

\* where the blocks of an answer start, counted from the fetched samples
KanjiStart == Len(fetched.radicals)
VocabStart == KanjiStart + Len(fetched.kanji)
LearnStart == VocabStart + Len(fetched.vocabulary)

\* the sampled rows no step of the assembly can fail on
GlyphRadicals == \A j \in 1..Len(fetched.radicals) :
                    fetched.radicals[j].character \notin {None, <<>>}
ReadKanji     == \A j \in 1..Len(fetched.kanji) : fetched.kanji[j].readings # None
EnoughRows    == /\ Len(fetched.radicals) >= 2
                 /\ Len(fetched.kanji) >= 2
                 /\ Len(fetched.vocabulary) >= 2

\* the comma-separated segments of a text, each without the blanks around
\* it, the empty ones left out
Segments(text) ==
    LET cuts == Ascending({0, Len(text) + 1} \cup {i \in 1..Len(text) : text[i] = ","})
        Piece(j) == SubSeq(text, cuts[j] + 1, cuts[j + 1] - 1)
        Trimmed(t) ==
            LET ink == {i \in 1..Len(t) : t[i] # " "}
            IN IF ink = {} THEN <<>>
               ELSE SubSeq(t, CHOOSE i \in ink : \A k \in ink : i <= k,
                              CHOOSE i \in ink : \A k \in ink : k <= i)
        NonEmpty(t) == Len(t) > 0
    IN SelectSeq([j \in 1..(Len(cuts) - 1) |-> Trimmed(Piece(j))], NonEmpty)

Occurrences(seq, x) == Cardinality({i \in 1..Len(seq) : seq[i] = x})

\* C1: on samples of exactly 5 radicals, 5 kanji and 5 vocabulary the answer
\* has exactly 21 items; items 1-15 are review items, 5 radicals then 5 kanji
\* then 5 vocabulary in the order of the samples, and items 16-21 are learn
\* items, 2 radicals then 2 kanji then 2 vocabulary.
C1_FifteenReviewThenSixLearn ==
    (/\ QuizRan
     /\ Len(fetched.radicals) = 5
     /\ Len(fetched.kanji) = 5
     /\ Len(fetched.vocabulary) = 5)
    => /\ resp.status = 200
       /\ Len(Items) = 21
       /\ \A i \in 1..15 : Items[i].mode = "review"
       /\ \A i \in 16..21 : Items[i].mode = "learn"
       /\ \A j \in 1..5 :
            /\ Items[j].type = "radical"
            /\ Items[j].id = <<"radical_">> \o Decimal(fetched.radicals[j].id)
            /\ Items[5 + j].type = "kanji"
            /\ Items[5 + j].id = <<"kanji_">> \o Decimal(fetched.kanji[j].id)
            /\ Items[10 + j].type = "vocabulary"
            /\ Items[10 + j].id = <<"vocab_">> \o Decimal(fetched.vocabulary[j].id)
       /\ \A j \in 1..2 :
            /\ Items[15 + j].type = "radical"
            /\ Items[17 + j].type = "kanji"
            /\ Items[19 + j].type = "vocabulary"

\* C2: in every answer of get_test_data the i-th learn item of a category
\* (i = 1, 2) repeats the i-th review item of that category: same type,
\* character and prompts, mode "learn", and the review id's item id behind
\* learn_radical_, learn_kanji_ or learn_vocab_.
C2_LearnItemsRepeatTheSample ==
    QuizAnswered =>
        LET Repeats(learn, review, learn_prefix, review_prefix) ==
                /\ learn.type = review.type
                /\ learn.character = review.character
                /\ learn.prompts = review.prompts
                /\ learn.mode = "learn"
                /\ review.mode = "review"
                /\ Head(review.id) = review_prefix
                /\ learn.id = <<learn_prefix>> \o Tail(review.id)
        IN /\ Len(Items) = LearnStart + 6
           /\ \A i \in 1..2 :
                /\ Repeats(Items[LearnStart + i], Items[i],
                           "learn_radical_", "radical_")
                /\ Repeats(Items[LearnStart + 2 + i], Items[KanjiStart + i],
                           "learn_kanji_", "kanji_")
                /\ Repeats(Items[LearnStart + 4 + i], Items[VocabStart + i],
                           "learn_vocab_", "vocab_")

\* C2 witness: an answer of 21 items whose first learn radical is the first
\* review radical
C2_Witness ==
    /\ QuizAnswered
    /\ Len(Items) = 21
    /\ Items[16].mode = "learn"
    /\ Items[16].character = Items[1].character

\* C3: the "reading" answer of a sampled kanji is the sequence of the
\* comma-separated segments of its aggregated reading text, trimmed, without
\* the empty ones, in order; in its review item and in its learn item.
C3_ReadingAnswerIsTheTrimmedSegments ==
    QuizAnswered =>
        /\ \A j \in 1..Len(fetched.kanji) :
             /\ Items[KanjiStart + j].prompts[2].type = "reading"
             /\ Answer(Items[KanjiStart + j], 2) = Segments(fetched.kanji[j].readings)
        /\ \A j \in 1..2 :
             /\ Items[LearnStart + 2 + j].prompts[2].type = "reading"
             /\ Answer(Items[LearnStart + 2 + j], 2) = Segments(fetched.kanji[j].readings)

\* C3 witness: a kanji whose text is "a, b, ,c" is answered by a, b, c in its
\* review item and in its learn item
C3_Witness ==
    /\ QuizAnswered
    /\ fetched.kanji[2].readings = <<"a", ",", " ", "b", ",", " ", ",", "c">>
    /\ Answer(Items[KanjiStart + 2], 2) = <<<<"a">>, <<"b">>, <<"c">>>>
    /\ Answer(Items[LearnStart + 4], 2) = <<<<"a">>, <<"b">>, <<"c">>>>

\* C4: the "meaning" answer of a sampled vocabulary is its primary meaning
\* followed by exactly its non-null, non-empty alternative meanings in the
\* order they were aggregated (the primary meaning alone when there are
\* none); its "reading" answer is its single reading.
C4_MeaningAnswerIsPrimaryThenAlternatives ==
    QuizAnswered =>
        \A j \in 1..Len(fetched.vocabulary) :
            LET v      == fetched.vocabulary[j]
                alts   == v.alternative_meanings
                kept   == Ascending({i \in 1..Len(alts) : alts[i] # None /\ Len(alts[i]) > 0})
                Holds(item) ==
                    /\ item.prompts[1].type = "meaning"
                    /\ item.prompts[2].type = "reading"
                    /\ Len(Answer(item, 1)) = 1 + Len(kept)
                    /\ Answer(item, 1)[1] = v.primary_meaning
                    /\ \A p \in 1..Len(kept) : Answer(item, 1)[p + 1] = alts[kept[p]]
                    /\ Answer(item, 2) = v.reading
            IN /\ Holds(Items[VocabStart + j])
               /\ j <= 2 => Holds(Items[LearnStart + 4 + j])

\* C4 witness: a vocabulary with the alternatives ["a", None] aggregated is
\* answered by its primary meaning and "a"
C4_Witness ==
    /\ QuizAnswered
    /\ fetched.vocabulary[1].alternative_meanings = <<<<"a">>, None>>
    /\ Answer(Items[VocabStart + 1], 1) = <<fetched.vocabulary[1].primary_meaning, <<"a">>>>
    /\ Answer(Items[LearnStart + 5], 1) = <<fetched.vocabulary[1].primary_meaning, <<"a">>>>

\* C5: every sampled radical is answered by an item radical_<id> with the
\* one prompt "meaning" holding its meaning, its character being the glyph
\* when it has one and its image reference otherwise; an image-only radical
\* in the sample does not fail the request.
C5_ImageOnlyRadicalIsAnswered ==
    (QuizRan /\ ReadKanji /\ EnoughRows) =>
        /\ resp.status = 200
        /\ \A j \in 1..Len(fetched.radicals) :
             LET row == fetched.radicals[j]
                 stored == db.radicals[row.id]
             IN /\ Items[j].id = <<"radical_">> \o Decimal(row.id)
                /\ Items[j].prompts = <<[type |-> "meaning", answer |-> stored.meaning]>>
                /\ Items[j].character =
                      IF stored.character \notin {None, <<>>} THEN stored.character
                      ELSE stored.character_image

\* C6: a sampled level-1 kanji without reading rows does not fail the
\* request; its "reading" answer is the empty list.
C6_KanjiWithoutReadingsIsAnswered ==
    (QuizRan /\ GlyphRadicals /\ EnoughRows) =>
        /\ resp.status = 200
        /\ \A j \in 1..Len(fetched.kanji) :
             ReadingsOf(db, fetched.kanji[j].id) = <<>>
                => Answer(Items[KanjiStart + j], 2) = <<>>

\* C7, as claimed: the "reading" answer of a kanji item holds no string twice.
C7_ReadingsAreDistinct ==
    QuizAnswered =>
        \A i \in 1..Len(Items) :
            Items[i].type = "kanji" =>
                \A x \in 1..Len(Answer(Items[i], 2)), y \in 1..Len(Answer(Items[i], 2)) :
                    Answer(Items[i], 2)[x] = Answer(Items[i], 2)[y] => x = y

\* C7, amended: the "reading" answer of a kanji item holds no empty string,
\* and holds every reading as often as it occurs among the trimmed,
\* non-empty segments of the aggregated text: readings are not de-duplicated.
C7_ReadingsAreKeptPerOccurrence ==
    QuizAnswered =>
        \A j \in 1..Len(fetched.kanji) :
            LET answer == Answer(Items[KanjiStart + j], 2)
                given  == Segments(fetched.kanji[j].readings)
            IN /\ \A x \in 1..Len(answer) : answer[x] # <<>>
               /\ Len(answer) = Len(given)
               /\ \A x \in 1..Len(given) :
                    Occurrences(answer, given[x]) = Occurrences(given, given[x])

\* C7 witness: a kanji with the reading "a" under two reading types is
\* answered by "a" twice
C7_Witness ==
    /\ QuizAnswered
    /\ fetched.kanji[1].readings = <<"a", ",", " ", "a">>
    /\ Answer(Items[KanjiStart + 1], 2) = <<<<"a">>, <<"a">>>>

----------------------------------------------------------------------------
(* The answer-info API                                                     *)

\* the content of the last row whose type column holds the type, "" when
\* there is none
LastContent(rows, column, type) ==
    LET hits == {i \in 1..Len(rows) : rows[i][column] = type}
    IN IF hits = {} THEN <<>>
       ELSE rows[CHOOSE i \in hits : \A j \in hits : j <= i].content

\* the type labels of mnemonics, explanations and readings in collation order
Labels == <<"kun", "meaning", "on", "radical", "reading">>
LabelLess(a, b) ==
    (CHOOSE i \in 1..Len(Labels) : Labels[i] = a) < (CHOOSE i \in 1..Len(Labels) : Labels[i] = b)

\* SELECT mnemonic_type, content FROM kanji_mnemonics WHERE kanji_id = %s
\* ORDER BY mnemonic_type
MnemonicsOf(store, kanji_id) ==
    LET Mine(r) == r.kanji_id = kanji_id
        mine == SelectSeq(store.kanji_mnemonics, Mine)
    IN SortBy(mine, [i \in DOMAIN mine |-> [j \in DOMAIN mine |->
                        LabelLess(mine[i].mnemonic_type, mine[j].mnemonic_type)]])

\* SELECT explanation_type, content FROM vocab_explanations WHERE vocab_id = %s
\* ORDER BY explanation_type
ExplanationsOf(store, vocab_id) ==
    LET Mine(r) == r.vocab_id = vocab_id
        mine == SelectSeq(store.vocab_explanations, Mine)
    IN SortBy(mine, [i \in DOMAIN mine |-> [j \in DOMAIN mine |->
                        LabelLess(mine[i].explanation_type, mine[j].explanation_type)]])

\* RadicalInfo without the test of the mnemonic: if result: info["meaning"] = ...
RadicalInfoUnchecked(store, item_id) ==
    [meaning |-> IF item_id \in DOMAIN store.radicals
                 THEN store.radicals[item_id].mnemonic
                 ELSE <<>>,
     reading |-> <<>>]

\* lines 328-340: the info of a radical, its mnemonic when the row has one
RadicalInfo(store, item_id) ==
    [meaning |-> IF item_id \in DOMAIN store.radicals
                    /\ Truthy(store.radicals[item_id].mnemonic)
                 THEN store.radicals[item_id].mnemonic
                 ELSE <<>>,
     reading |-> <<>>]

\* lines 342-359: the info of a kanji, from its mnemonics by type
KanjiInfo(store, item_id) ==
    [meaning |-> LastContent(MnemonicsOf(store, item_id), "mnemonic_type", "meaning"),
     reading |-> LastContent(MnemonicsOf(store, item_id), "mnemonic_type", "reading")]

\* lines 361-378: the info of a vocabulary, from its explanations by type
VocabularyInfo(store, item_id) ==
    [meaning |-> LastContent(ExplanationsOf(store, item_id), "explanation_type", "meaning"),
     reading |-> LastContent(ExplanationsOf(store, item_id), "explanation_type", "reading")]

\* the info record get_additional_info builds, lines 326-378
AdditionalInfo(store, item_type, item_id) ==
    CASE item_type = "radical"    -> RadicalInfo(store, item_id)
      [] item_type = "kanji"      -> KanjiInfo(store, item_id)
      [] item_type = "vocabulary" -> VocabularyInfo(store, item_id)
      [] OTHER                    -> [meaning |-> <<>>, reading |-> <<>>]

ItemTypes == {"radical", "kanji", "vocabulary", "grammar"}
QueriedTypes == {"radical", "kanji", "vocabulary"}
RequestIds == ItemIds \cup {MissingId}

\* get_additional_info, lines 320-382; an unknown type runs no query
GetAdditionalInfo(fault) ==
    \E item_type \in ItemTypes, item_id \in RequestIds :
        LET request == Request("get_additional_info", "GET", <<item_type, item_id>>)
        IN IF Unauthorized # "" THEN Refuse(request)
           ELSE IF fault /\ item_type \in QueriedTypes THEN QueryFails(request)
           ELSE Answers(request, Json(AdditionalInfo(db, item_type, item_id)), 0)

----------------------------------------------------------------------------
(* The pages                                                               *)

\* the dict the listing views build: level -> the rows of the level, in query order
GroupByLevel(ids, table) ==
    [level \in {table[i].level : i \in DOMAIN table} |->
        LET AtLevel(i) == table[i].level = level IN SelectSeq(ids, AtLevel)]

\* the ids of a table in the order ORDER BY level, <text column> gives
OrderedIds(table, ids, column) ==
    LET seq == Ascending(ids)
        Less(i, j) ==
            \/ table[i].level < table[j].level
            \/ table[i].level = table[j].level /\ TextLess(table[i][column], table[j][column])
    IN SortBy(seq, [i \in DOMAIN seq |-> [j \in DOMAIN seq |-> Less(seq[i], seq[j])]])

\* radicals(), lines 106-129
Radicals(fault) ==
    LET request == Request("radicals", "GET", <<>>)
        listed  == OrderedIds(db.radicals, DOMAIN db.radicals, "meaning")
    IN IF Unauthorized # "" THEN Refuse(request)
       ELSE IF fault THEN QueryFails(request)
       ELSE Answers(request,
                    Render("radicals.html",
                           [radicals_by_level |-> GroupByLevel(listed, db.radicals)]),
                    0)

\* radical_detail(radical_id), lines 132-170: the 404 return precedes conn.close()
RadicalDetail(fault) ==
    \E radical_id \in RequestIds :
        LET request == Request("radical_detail", "GET", <<radical_id>>)
            users_of == {k \in DOMAIN db.kanji : <<k, radical_id>> \in db.kanji_radicals}
        IN IF Unauthorized # "" THEN Refuse(request)
           ELSE IF fault THEN QueryFails(request)
           ELSE IF radical_id \notin DOMAIN db.radicals
           THEN Answers(request, NotFound("Radical not found"), 1)
           ELSE Answers(request,
                        Render("radical_detail.html",
                               [radical    |-> db.radicals[radical_id],
                                kanji_list |-> OrderedIds(db.kanji, users_of, "character")]),
                        0)

\* STRING_AGG(CASE WHEN kr.reading_type = 'on' THEN kr.reading_text END, ', ')
Onyomi(store, i) ==
    LET Mine(r) == r.kanji_id = i
        mine == SelectSeq(store.kanji_readings, Mine)
    IN StringAgg([n \in DOMAIN mine |->
                     IF mine[n].reading_type = "on" THEN mine[n].reading_text ELSE None],
                 <<",", " ">>)

\* kanji(), lines 173-199
Kanji(fault) ==
    LET request == Request("kanji", "GET", <<>>)
        listed  == OrderedIds(db.kanji, DOMAIN db.kanji, "character")
    IN IF Unauthorized # "" THEN Refuse(request)
       ELSE IF fault THEN QueryFails(request)
       ELSE Answers(request,
                    Render("kanji.html",
                           [kanji_by_level |-> GroupByLevel(listed, db.kanji),
                            onyomi         |-> [i \in DOMAIN db.kanji |-> Onyomi(db, i)]]),
                    0)

\* SELECT reading_type, reading_text FROM kanji_readings WHERE kanji_id = %s
\* ORDER BY reading_type, reading_text
ReadingRowsOf(store, kanji_id) ==
    LET Mine(r) == r.kanji_id = kanji_id
        mine == SelectSeq(store.kanji_readings, Mine)
        Less(r, q) ==
            \/ LabelLess(r.reading_type, q.reading_type)
            \/ r.reading_type = q.reading_type /\ TextLess(r.reading_text, q.reading_text)
    IN SortBy(mine, [i \in DOMAIN mine |-> [j \in DOMAIN mine |-> Less(mine[i], mine[j])]])

\* kanji_detail(kanji_id), lines 202-285: the 404 return precedes conn.close()
KanjiDetail(fault) ==
    \E kanji_id \in RequestIds :
        LET request  == Request("kanji_detail", "GET", <<kanji_id>>)
            parts    == {r \in DOMAIN db.radicals : <<kanji_id, r>> \in db.kanji_radicals}
            users_of == {v \in DOMAIN db.vocabulary :
                            <<v, kanji_id>> \in db.vocab_kanji_composition}
        IN IF Unauthorized # "" THEN Refuse(request)
           ELSE IF fault THEN QueryFails(request)
           ELSE IF kanji_id \notin DOMAIN db.kanji
           THEN Answers(request, NotFound("Kanji not found"), 1)
           ELSE Answers(request,
                        Render("kanji_detail.html",
                               [kanji      |-> db.kanji[kanji_id],
                                readings   |-> ReadingRowsOf(db, kanji_id),
                                mnemonics  |-> MnemonicsOf(db, kanji_id),
                                radicals   |-> OrderedIds(db.radicals, parts, "meaning"),
                                vocabulary |-> OrderedIds(db.vocabulary, users_of,
                                                          "character")]),
                        0)

\* vocabulary(), lines 288-311
Vocabulary(fault) ==
    LET request == Request("vocabulary", "GET", <<>>)
        listed  == OrderedIds(db.vocabulary, DOMAIN db.vocabulary, "character")
    IN IF Unauthorized # "" THEN Refuse(request)
       ELSE IF fault THEN QueryFails(request)
       ELSE Answers(request,
                    Render("vocabulary.html",
                           [vocab_by_level |-> GroupByLevel(listed, db.vocabulary)]),
                    0)

\* SELECT meaning_text FROM vocabulary_alternative_meanings WHERE vocab_id = %s
\* ORDER BY meaning_text
AltMeaningsOf(store, vocab_id) ==
    LET mine == AlternativesOf(store, vocab_id)
    IN SortBy(mine, [i \in DOMAIN mine |->
                       [j \in DOMAIN mine |-> NullsLastLess(mine[i], mine[j])]])

\* vocab_detail(vocab_id), lines 536-604: the 404 return precedes conn.close()
VocabDetail(fault) ==
    \E vocab_id \in RequestIds :
        LET request == Request("vocab_detail", "GET", <<vocab_id>>)
            parts   == {k \in DOMAIN db.kanji : <<vocab_id, k>> \in db.vocab_kanji_composition}
        IN IF Unauthorized # "" THEN Refuse(request)
           ELSE IF fault THEN QueryFails(request)
           ELSE IF vocab_id \notin DOMAIN db.vocabulary
           THEN Answers(request, NotFound("Vocabulary not found"), 1)
           ELSE Answers(request,
                        Render("vocab_detail.html",
                               [vocab             |-> db.vocabulary[vocab_id],
                                alt_meanings      |-> AltMeaningsOf(db, vocab_id),
                                explanations      |-> ExplanationsOf(db, vocab_id),
                                kanji_composition |-> OrderedIds(db.kanji, parts,
                                                                 "character")]),
                        0)

\* test(), lines 314-317
Test ==
    LET request == Request("test", "GET", <<>>)
    IN IF Unauthorized # "" THEN Refuse(request)
       ELSE Answers(request, Render("test.html", <<>>), 0)

----------------------------------------------------------------------------
(* Login and logout                                                        *)

Usernames == {"alice", "mallory"}
Passwords == {"pw", "guess"}

\* index(), lines 99-103
Index ==
    LET request == Request("index", "GET", <<>>)
    IN IF session = NoUser THEN Answers(request, Redirect("login"), 0)
       ELSE IF ~CanConnect THEN Answers(request, ServerError("OperationalError"), 0)
       ELSE IF UserGet(db, session) # NoUser THEN Answers(request, Redirect("radicals"), 0)
       ELSE Answers(request, Redirect("login"), 0)

\* login(), lines 607-620, with User.authenticate, lines 61-81
Login(fault) ==
    \E method \in {"GET", "POST"} :
    \E form \in IF method = "POST" THEN Usernames \X Passwords ELSE {<<>>} :
        LET request == Request("login", method, form)
            user    == Authenticate(db, form[1], form[2])
        IN IF session # NoUser /\ ~CanConnect
           THEN Answers(request, ServerError("OperationalError"), 0)
           ELSE IF session # NoUser /\ UserGet(db, session) # NoUser
           THEN Answers(request, Redirect("radicals"), 0)
           ELSE IF method = "GET"
           THEN Answers(request, Render("login.html", <<>>), 0)
           ELSE IF ~CanConnect
           THEN Answers(request, ServerError("OperationalError"), 0)
           ELSE IF fault
           THEN QueryFails(request)
           ELSE IF user # NoUser
           THEN /\ Finish(request, Redirect("radicals"), 0)
                /\ db' = StampLogin(db, user)
                /\ session' = user
                /\ fetched' = NoRows
           ELSE Answers(request,
                        Render("login.html", <<"Invalid username or password">>), 0)

\* logout(), lines 623-627
Logout ==
    LET request == Request("logout", "GET", <<>>)
    IN IF Unauthorized # "" THEN Refuse(request)
       ELSE /\ Finish(request, Redirect("login"), 0)
            /\ session' = NoUser
            /\ fetched' = NoRows
            /\ UNCHANGED db

----------------------------------------------------------------------------
(* The application                                                         *)

\* stores the whole application is explored over: the baseline, one with an
\* image-only radical at level 1, one with a level-1 kanji without readings
WebStores ==
    {Baseline,
     [Baseline EXCEPT !.radicals[1].character = None],
     [Baseline EXCEPT !.kanji_readings = KanjiReadings(<<>>)]}

Init ==
    /\ db \in WebStores
    /\ session = NoUser
    /\ open = 0
    /\ req = NoRequest
    /\ fetched = NoRows
    /\ resp = NoResponse

Next ==
    \E fault \in BOOLEAN :
        \/ Index
        \/ Login(fault)
        \/ Logout
        \/ Radicals(fault)
        \/ RadicalDetail(fault)
        \/ Kanji(fault)
        \/ KanjiDetail(fault)
        \/ Vocabulary(fault)
        \/ VocabDetail(fault)
        \/ Test
        \/ GetAdditionalInfo(fault)
        \/ GetTestData(fault)

Spec == Init /\ [][Next]_vars


----------------------------------------------------------------------------
(* Properties of the application                                           *)

\* C8: every connection a handler opens is released when the handler
\* returns, on every exit path: no connection is open between requests.
C8_NoConnectionStaysOpen == open = 0

GatedRoutes ==
    {"radicals", "radical_detail", "kanji", "kanji_detail", "vocabulary",
     "vocab_detail", "test", "get_additional_info", "get_test_data"}

\* the credentials of a login form are those of a user
Verifies(store, form) ==
    \E u \in DOMAIN store.users :
        /\ store.users[u].username = form[1]
        /\ store.users[u].password_hash = Hash(form[2])

C9Step ==
    \* without a session a gated page answers with the redirect to login
    /\ (req'.route \in GatedRoutes /\ session = NoUser)
          => (resp'.status = 302 /\ resp'.body = "login")
    \* a gated page is served to a session only
    /\ (req'.route \in GatedRoutes /\ resp'.status \in {200, 404})
          => (session # NoUser /\ session' # NoUser)
    \* a session starts with a POST /login whose credentials verify
    /\ (session = NoUser /\ session' # NoUser)
          => /\ req'.route = "login"
             /\ req'.method = "POST"
             /\ Verifies(db, req'.args)
    \* a POST /login whose credentials fail starts none and shows the login page
    /\ (/\ session = NoUser
        /\ req'.route = "login"
        /\ req'.method = "POST"
        /\ ~Verifies(db, req'.args)
        /\ resp'.status # 500)
          => /\ session' = NoUser
             /\ resp'.status = 200
             /\ resp'.body.template = "login.html"
    \* after a logout, /radicals answers with the redirect to login
    /\ (req.route = "logout" /\ resp.status = 302 /\ req'.route = "radicals")
          => (resp'.status = 302 /\ resp'.body = "login")

\* C9: a session-gated page is served only to an authenticated session; a
\* session becomes authenticated only by a POST /login whose credentials
\* verify; a failed POST /login leaves it unauthenticated and shows the
\* login page again; after login and logout, GET /radicals redirects to the
\* login page.
C9_PagesAreServedToSessionsOnly == [][C9Step]_vars

\* C9 witness: a user has logged in and out, and /radicals answered the
\* redirect to login
C9_Witness ==
    /\ db.users[1].last_login # None
    /\ session = NoUser
    /\ req.route = "radicals"
    /\ resp.status = 302
    /\ resp.body = "login"

C10Step ==
    (/\ req'.route = "get_additional_info"
     /\ session # NoUser
     /\ ~(resp'.status = 500 /\ resp'.body = "OperationalError"))
    => LET item_type == req'.args[1]
           item_id   == req'.args[2]
           empty     == [meaning |-> <<>>, reading |-> <<>>]
       IN /\ resp'.status = 200
          /\ item_type \notin {"radical", "kanji", "vocabulary"} => resp'.body = empty
          /\ item_type = "radical" =>
                /\ resp'.body.reading = <<>>
                /\ item_id \notin DOMAIN db.radicals => resp'.body = empty
                /\ (/\ item_id \in DOMAIN db.radicals
                    /\ db.radicals[item_id].mnemonic \in {None, <<>>})
                      => resp'.body = empty
          /\ db' = db

\* C10: unless the database fails, get_additional_info answers the record
\* with both fields empty for every item type other than radical, kanji and
\* vocabulary, and for a radical that has no mnemonic text or does not
\* exist; the reading of a radical is always empty; the store is unchanged.
C10_UnknownItemsGetTheEmptyRecord == [][C10Step]_vars

\* C10 witness: the radical whose mnemonic is NULL was asked for and
\* answered with the empty record
C10_Witness ==
    /\ req.route = "get_additional_info"
    /\ req.args = <<"radical", 2>>
    /\ resp.status = 200
    /\ resp.body = [meaning |-> <<>>, reading |-> <<>>]

====
